---- MODULE Spec2Model ----
(***************************************************************************)
(* A model of src/src/lite-element.ts: the ReactiveProperty cell, the      *)
(* LiteElement controller base class with its lifecycle hooks, the         *)
(* reactive() accessor installer, and the lite() registry with the         *)
(* discovery pass LiteBase.updateContent.                                  *)
(*                                                                         *)
(* The host framework (lit) is outside the file.  It is modelled only as   *)
(* far as the file calls it: requestUpdate() sets isUpdatePending,         *)
(* addController() stores the controller and calls hostConnected() at once *)
(* when the host is connected, performUpdate() calls every controller's    *)
(* hostUpdate() and then updated(), and render(result, container) replaces *)
(* the container's content.  Hosts are modelled from their first           *)
(* connection on: they have a shadow root, and their first update is       *)
(* pending.                                                                *)
(* An exception thrown by render() leaves every function of the file, none *)
(* of which has a catch; performUpdate() then marks the update done and    *)
(* does not call updated().                                                *)
(*                                                                         *)
(* LiteElement is abstract.  The model instantiates it with two concrete   *)
(* controllers that both declare the reactive field "count" (static        *)
(* properties = {count}) and define a method increment():                  *)
(*   Counter  has the class field "count = 0", which runs after the base   *)
(*            constructor returned and assigns through the accessor if one *)
(*            is installed by then; render() returns "count=" + this.count *)
(*   Label    declares count without an initialiser; render() returns a    *)
(*            constant and never reads this.count                          *)
(***************************************************************************)
EXTENDS Integers, Sequences, FiniteSets, TLC

\* ------------------------------------------------------------------ bounds
NumElements == 2          \* DOM nodes that may carry the lite attribute
MaxValue == 1             \* callers write the values 0..MaxValue

\* --------------------------------------------------------------- constants
Undefined == -1           \* the JavaScript value undefined

Hosts == {1, 2}           \* LitElement instances of the class made by lite()
Elements == 1..NumElements
Names == {"counter", "label"}
Ctors == {"Counter", "Label"}
NoCtor == "none"
NotInRoot == "#"
Fields == {"count"}
Values == 0..MaxValue
NoId == <<0, 0>>
NoTarget == <<0, 0>>

\* the [name, constructor] pairs the host classes pass to lite()
Registrations ==
    {<<"counter", "Counter">>, <<"counter", "Label">>, <<"label", "Label">>}

\* The pages the hosts are mounted in: the shadow root each node is in
\* (0: the node is not part of the page).  Either host 1 holds the first k
\* nodes, or hosts 1 and 2 hold one node each.
Layouts ==
    {l \in [Elements -> {0} \cup Hosts] :
        /\ l[1] = 1
        /\ \/ \A e \in Elements \ {1} : l[e] \in {0, 1} /\ (l[e] = 1 => l[e - 1] = 1)
           \/ \A e \in Elements \ {1} : l[e] = (IF e = 2 THEN 2 ELSE 0)}

\* static properties of the controller classes: the declared reactive fields
Properties(ctor) == Fields

\* the fields a class initialises with a class field, and the value it
\* assigns: Counter has "count = 0", Label leaves count undefined
InitializedFields(ctor) == IF ctor = "Counter" THEN Fields ELSE {}
DefaultOf(ctor, f) == IF f \in InitializedFields(ctor) THEN 0 ELSE Undefined

\* Object.getOwnPropertyNames of the prototypes: the concrete classes define
\* render() and increment(), LiteElement.prototype holds the hooks
LiteElementMethods ==
    {"constructor", "hostConnected", "hostUpdate", "initReactiveProperties", "update"}
PrototypeMethods(ctor) == {"constructor", "render", "increment"}

\* static properties found through a bound constructor: a bound function has
\* no own statics and inherits those of LiteElement, which declares none
InheritedProperties == {}

VARIABLES
    liteElementsMap,            \* marker name -> constructor (NoCtor: no entry)
    liteElementsInstancesMap,   \* element -> instance (NoId: no entry)
    instances,                  \* element -> the LiteElement objects constructed for it, in order
    controllers,                \* host -> the instances added with addController
    isConnected,                \* host -> the host is in the document
    isUpdatePending,            \* host -> a requested update was not performed yet
    hostOf,                     \* element -> the host whose shadow root it is in
    attr,                       \* element -> its lite attribute (NotInRoot: not in the shadow root)
    content,                    \* element -> what was last rendered into it
    requested,                  \* host -> requestUpdate() calls of the last step
    lastOp,                     \* the operation of the last step
    renderFails,                \* render() of the controllers throws at present
    thrown,                     \* the last step ended with an exception leaving the handler
    failures                    \* calls of render() that threw in the last step

vars == <<liteElementsMap, liteElementsInstancesMap, instances, controllers,
          isConnected, isUpdatePending, hostOf, attr, content, requested, lastOp,
          renderFails, thrown, failures>>

HostOf(e) == hostOf[e]
Nodes == {e \in Elements : hostOf[e] # 0}
LiveHosts == {hostOf[e] : e \in Nodes}

\* On the page with a single node the program also re-registers marker names,
\* detaches and re-attaches the host and calls the controller's hooks itself;
\* on the larger pages the registry stays as the class definition left it, the
\* hosts stay attached and only the hosts call the hooks.
SingleNode == Cardinality(Nodes) = 1

\* On the pages with more than two nodes the nodes enter the shadow root with
\* lite="counter" and stay as they are.
SmallPage == Cardinality(Nodes) <= 2

\* an instance is named by its element and its position among that element's instances
The(i) == instances[i[1]][i[2]]
Ids == UNION {{<<e, k>> : k \in 1..Len(instances[e])} : e \in Elements}

\* ----------------------------------------------------------- render results
Empty == [tpl |-> "", arg |-> Undefined]

\* ------------------------------------------------------------ the heap
\* The part of the state the handlers change, threaded through the operators.
Obj(w, i) == w.instances[i[1]][i[2]]

World ==
    [instances |-> instances,
     instMap |-> liteElementsInstancesMap,
     controllers |-> controllers,
     content |-> content,
     pending |-> isUpdatePending,
     requested |-> [h \in Hosts |-> 0],
     thrown |-> FALSE,
     failures |-> 0]

\* LitElement.requestUpdate()
RequestUpdate(w, h) ==
    [w EXCEPT !.pending[h] = TRUE, !.requested[h] = @ + 1]

\* ------------------------------------------------------ ReactiveProperty
NoSlot == [exists |-> FALSE, host |-> 0, value |-> Undefined]

\* constructor(host, value)
NewReactiveProperty(h, v) == [exists |-> TRUE, host |-> h, value |-> v]

\* get()
ReactivePropertyGet(slot) == slot.value

\* set(newValue) that requests the update and drops the value
ReactivePropertySet_NoStore(w, i, f, v) ==
    RequestUpdate(w, Obj(w, i).slot[f].host)

\* set(newValue)
ReactivePropertySet(w, i, f, v) ==
    RequestUpdate([w EXCEPT !.instances[i[1]][i[2]].slot[f].value = v],
                  Obj(w, i).slot[f].host)

\* ------------------------------------------------------------- reactive()
\* target[internalKey] = new ReactiveProperty(target.host, v); slotsMade counts
\* the ReactiveProperty objects made for the field
CreateSlot(w, i, f, v) ==
    [w EXCEPT !.instances[i[1]][i[2]].slot[f] = NewReactiveProperty(Obj(w, i).host, v),
              !.instances[i[1]][i[2]].slotsMade[f] = @ + 1]

\* a getter without the check for an existing slot: every read seeds a new
\* slot with originalValue
Getter_AlwaysSeed(w, i, f) ==
    LET o == Obj(w, i)
        w1 == CreateSlot(w, i, f, o.prop[f].value)
    IN [w |-> w1, val |-> w1.instances[i[1]][i[2]].slot[f].value]

\* a getter that requests an update of the host when it makes the slot
Getter_Requests(w, i, f) ==
    LET o == Obj(w, i)
        w1 == IF ~o.slot[f].exists
              THEN RequestUpdate(CreateSlot(w, i, f, o.prop[f].value), o.host)
              ELSE w
    IN [w |-> w1, val |-> ReactivePropertyGet(Obj(w1, i).slot[f])]

\* the getter reactive() defines; prop[f].value is the originalValue it closes over
Getter(w, i, f) ==
    LET o == Obj(w, i)
        w1 == IF ~o.slot[f].exists
              THEN CreateSlot(w, i, f, o.prop[f].value)
              ELSE w
    IN [w |-> w1, val |-> ReactivePropertyGet(Obj(w1, i).slot[f])]

\* a setter that makes a new ReactiveProperty on every write
Setter_AlwaysCreate(w, i, f, v) ==
    IF ~Obj(w, i).slot[f].exists
    THEN CreateSlot(w, i, f, v)
    ELSE RequestUpdate(CreateSlot(w, i, f, v), Obj(w, i).host)

\* the setter reactive() defines
Setter(w, i, f, v) ==
    LET o == Obj(w, i)
    IN IF ~o.slot[f].exists
       THEN CreateSlot(w, i, f, v)
       ELSE ReactivePropertySet(w, i, f, v)

\* target[propertyKey]: a property read on the instance
PropGet(w, i, f) ==
    LET p == Obj(w, i).prop[f]
    IN CASE p.kind = "accessor" -> Getter(w, i, f)
         [] p.kind = "data" -> [w |-> w, val |-> p.value]
         [] OTHER -> [w |-> w, val |-> Undefined]

\* target[propertyKey] = v: a property assignment on the instance
PropSet(w, i, f, v) ==
    IF Obj(w, i).prop[f].kind = "accessor"
    THEN Setter(w, i, f, v)
    ELSE [w EXCEPT !.instances[i[1]][i[2]].prop[f] = [kind |-> "data", value |-> v]]

\* reactive(target, propertyKey)
Reactive(w, i, f) ==
    LET g == PropGet(w, i, f)
    IN [g.w EXCEPT !.instances[i[1]][i[2]].prop[f] = [kind |-> "accessor", value |-> g.val]]

RECURSIVE ReactiveAll(_, _, _)
ReactiveAll(w, i, fs) ==
    IF fs = {} THEN w
    ELSE LET f == CHOOSE x \in fs : TRUE
         IN ReactiveAll(Reactive(w, i, f), i, fs \ {f})

\* ------------------------------------------------------------ LiteElement
\* (this.constructor as any).properties: the own property "constructor" that
\* the auto-binding loop assigns shadows the class once the loop has run
ConstructorProperties(w, i) ==
    IF "constructor" \in Obj(w, i).bound
    THEN InheritedProperties
    ELSE Properties(Obj(w, i).ctor)

\* initReactiveProperties() without the reactivePropertiesInitialized guard
InitReactiveProperties_NoGuard(w, i) ==
    ReactiveAll([w EXCEPT !.instances[i[1]][i[2]].reactivePropertiesInitialized = TRUE,
                          !.instances[i[1]][i[2]].installs = @ + 1],
                i, ConstructorProperties(w, i))

\* initReactiveProperties(); installs counts the runs of the guarded body
InitReactiveProperties(w, i) ==
    IF ~Obj(w, i).reactivePropertiesInitialized
    THEN ReactiveAll([w EXCEPT !.instances[i[1]][i[2]].reactivePropertiesInitialized = TRUE,
                               !.instances[i[1]][i[2]].installs = @ + 1],
                     i, ConstructorProperties(w, i))
    ELSE w

\* a throw statement: the exception leaves every caller that has no catch
Throw(w) == [w EXCEPT !.thrown = TRUE]

\* render() of the concrete controllers; it throws while renderFails holds
Render(w, i) ==
    IF renderFails
    THEN [w |-> Throw([w EXCEPT !.failures = @ + 1]), out |-> Empty]
    ELSE IF Obj(w, i).ctor = "Counter"
         THEN LET g == PropGet(w, i, "count")
              IN [w |-> g.w, out |-> [tpl |-> "count=", arg |-> g.val]]
         ELSE [w |-> w, out |-> [tpl |-> "label", arg |-> Undefined]]

\* lit's render(result, container)
LitRender(w, out, e) == [w EXCEPT !.content[e] = out]

\* update(element) with the call of render() in a try block that retries once
Update_Retry(w, i, e) ==
    LET r == Render(w, i)
        r2 == IF r.w.thrown THEN Render([r.w EXCEPT !.thrown = FALSE], i) ELSE r
    IN IF r2.w.thrown THEN r2.w ELSE LitRender(r2.w, r2.out, e)

\* update(element)
Update(w, i, e) ==
    LET r == Render(w, i)
    IN IF r.w.thrown THEN r.w ELSE LitRender(r.w, r.out, e)

\* hostConnected()
HostConnected(w, i) ==
    Update(InitReactiveProperties(w, i), i, Obj(w, i).element)

\* hostUpdate() that returns at once when the element left the shadow root
HostUpdate_SkipDetached(w, i) ==
    IF attr[Obj(w, i).element] = NotInRoot
    THEN w
    ELSE Update(InitReactiveProperties(w, i), i, Obj(w, i).element)

\* hostUpdate()
HostUpdate(w, i) ==
    Update(InitReactiveProperties(w, i), i, Obj(w, i).element)

\* LitElement.addController(controller)
AddController(w, h, i) ==
    LET w1 == [w EXCEPT !.controllers[h] = @ \cup {i}]
    IN IF isConnected[h] THEN HostConnected(w1, i) ELSE w1

\* the class field initialisers of the concrete controller, after super()
RECURSIVE FieldInitializers(_, _, _)
FieldInitializers(w, i, fs) ==
    IF fs = {} THEN w
    ELSE LET f == CHOOSE x \in fs : TRUE
         IN FieldInitializers(PropSet(w, i, f, DefaultOf(Obj(w, i).ctor, f)),
                              i, fs \ {f})

\* the object as the field declarations of LiteElement leave it
BlankLiteElement(ctor, h, e) ==
    [ctor |-> ctor, host |-> h, element |-> e,
     reactivePropertiesInitialized |-> FALSE,
     installs |-> 0,
     bound |-> {},
     prop |-> [f \in Fields |-> [kind |-> "none", value |-> Undefined]],
     slot |-> [f \in Fields |-> NoSlot],
     slotsMade |-> [f \in Fields |-> 0],
     written |-> [f \in Fields |-> [any |-> FALSE, value |-> Undefined]]]

\* the auto-binding loop of the constructor: every own property name of the
\* instance's prototype whose value is a function becomes an own bound property
AutoBind(w, i) ==
    [w EXCEPT !.instances[i[1]][i[2]].bound = PrototypeMethods(Obj(w, i).ctor)]

\* new LiteElementConstructor(host, element)
NewLiteElement(w, ctor, h, e) ==
    LET i == <<e, Len(w.instances[e]) + 1>>
        w1 == [w EXCEPT !.instances[e] = Append(@, BlankLiteElement(ctor, h, e))]
        w2 == AddController(w1, h, i)
        w3 == AutoBind(w2, i)
    IN IF w2.thrown
       THEN [w |-> w2, id |-> i]
       ELSE [w |-> FieldInitializers(w3, i, InitializedFields(ctor)), id |-> i]

\* -------------------------------------------------------- LiteElementHost
\* LiteElementHost.updateContent(host)
LiteElementHostUpdateContent(w, i, e) ==
    LET r == Render(w, i)
    IN IF r.w.thrown THEN r.w ELSE LitRender(r.w, r.out, e)

\* new LiteElementHost(liteElement, host)
NewLiteElementHost(w, i, e) == LiteElementHostUpdateContent(w, i, e)

\* ---------------------------------------------------------------- LiteBase
\* shadowRoot.querySelectorAll('[lite]'), in document order
RECURSIVE InOrder(_, _)
InOrder(S, e) ==
    IF e > NumElements THEN <<>>
    ELSE (IF e \in S THEN <<e>> ELSE <<>>) \o InOrder(S, e + 1)

QuerySelectorAll(h) ==
    InOrder({e \in Elements : HostOf(e) = h /\ attr[e] # NotInRoot}, 1)

\* the callback without the lookup in liteElementsInstancesMap
ProcessElement_NoLookup(w, h, e) ==
    LET liteElementName == attr[e]
    IN IF liteElementName = "" THEN w
       ELSE LET C == liteElementsMap[liteElementName]
            IN IF C = NoCtor THEN w
               ELSE LET n == NewLiteElement(w, C, h, e)
                        w1 == [n.w EXCEPT !.instMap[e] = n.id]
                    IN NewLiteElementHost(w1, n.id, e)

\* the callback without liteElementsInstancesMap.set(...)
ProcessElement_NoRecord(w, h, e) ==
    LET liteElementName == attr[e]
    IN IF liteElementName = "" THEN w
       ELSE LET C == liteElementsMap[liteElementName]
            IN IF C = NoCtor THEN w
               ELSE IF w.instMap[e] = NoId
                    THEN LET n == NewLiteElement(w, C, h, e)
                         IN NewLiteElementHost(n.w, n.id, e)
                    ELSE NewLiteElementHost(w, w.instMap[e], e)

\* the callback with the instance looked up by marker name, not by element
ProcessElement_ByName(w, h, e) ==
    LET liteElementName == attr[e]
        same == {x \in Elements : attr[x] = liteElementName /\ w.instMap[x] # NoId}
    IN IF liteElementName = "" THEN w
       ELSE LET C == liteElementsMap[liteElementName]
            IN IF C = NoCtor THEN w
               ELSE IF same = {}
                    THEN LET n == NewLiteElement(w, C, h, e)
                             w1 == [n.w EXCEPT !.instMap[e] = n.id]
                         IN NewLiteElementHost(w1, n.id, e)
                    ELSE LET i == w.instMap[CHOOSE x \in same : TRUE]
                         IN NewLiteElementHost([w EXCEPT !.instMap[e] = i], i, e)

\* the body of the forEach callback of updateContent
ProcessElement(w, h, e) ==
    LET liteElementName == attr[e]
    IN IF liteElementName = "" THEN w
       ELSE LET C == liteElementsMap[liteElementName]
            IN IF C = NoCtor THEN w
               ELSE IF w.instMap[e] = NoId
                    THEN LET n == NewLiteElement(w, C, h, e)
                             w1 == [n.w EXCEPT !.instMap[e] = n.id]
                         IN IF n.w.thrown THEN n.w
                            ELSE NewLiteElementHost(w1, n.id, e)
                    ELSE NewLiteElementHost(w, w.instMap[e], e)

\* the loop with no check that the name has a constructor: new undefined(...)
\* throws and ends the pass at the first unregistered marker
RECURSIVE ForEachElement_ThrowOnUnregistered(_, _, _)
ForEachElement_ThrowOnUnregistered(w, h, es) ==
    IF es = <<>> THEN w
    ELSE IF liteElementsMap[attr[Head(es)]] = NoCtor THEN w
    ELSE ForEachElement_ThrowOnUnregistered(ProcessElement(w, h, Head(es)), h, Tail(es))

\* the pass that handles liteElements[0] only
ForEachElement_FirstOnly(w, h, es) ==
    IF es = <<>> THEN w ELSE ProcessElement(w, h, Head(es))

RECURSIVE ForEachElement(_, _, _)
ForEachElement(w, h, es) ==
    IF es = <<>> \/ w.thrown THEN w
    ELSE ForEachElement(ProcessElement(w, h, Head(es)), h, Tail(es))

\* updateContent()
UpdateContent(w, h) == ForEachElement(w, h, QuerySelectorAll(h))

\* the host's loops over its controller set; the controllers of one host
\* render into different elements, so the set is walked in a fixed order
FirstId(S) ==
    CHOOSE i \in S : \A j \in S : i[1] < j[1] \/ (i[1] = j[1] /\ i[2] <= j[2])

RECURSIVE ForEachController(_, _)
ForEachController(w, cs) ==
    IF cs = {} \/ w.thrown THEN w
    ELSE ForEachController(HostUpdate(w, FirstId(cs)), cs \ {FirstId(cs)})

RECURSIVE ConnectEachController(_, _)
ConnectEachController(w, cs) ==
    IF cs = {} \/ w.thrown THEN w
    ELSE ConnectEachController(HostConnected(w, FirstId(cs)), cs \ {FirstId(cs)})

\* ------------------------------------------------------------------ steps
Op(op, target, value) == [op |-> op, target |-> target, value |-> value]

\* the steps that run updateContent(), and the steps that assign a field
Passes == {"performUpdate", "updateContent"}
Writes == {"write", "increment", "bare.increment"}

\* the methods callers take off an instance and call detached
BareMethods == {"increment", "hostUpdate"}
BareOp(m) == IF m = "increment" THEN "bare.increment" ELSE "bare.hostUpdate"

\* the passes stop constructing at as many controllers as the page has nodes
RECURSIVE Constructed(_, _)
Constructed(w, e) ==
    IF e > NumElements THEN 0 ELSE Len(w.instances[e]) + Constructed(w, e + 1)
Bounded(w) == Constructed(w, 1) <= Cardinality(Nodes)

\* the heap after a handler ran
Becomes(w) ==
    /\ instances' = w.instances
    /\ liteElementsInstancesMap' = w.instMap
    /\ controllers' = w.controllers
    /\ content' = w.content
    /\ isUpdatePending' = w.pending
    /\ requested' = w.requested
    /\ thrown' = w.thrown
    /\ failures' = w.failures

\* The module was loaded, lite(Base, [["counter", Counter]]) defined the host
\* class, and each host was created and connected.
Loaded ==
    /\ liteElementsMap = [n \in Names |-> IF n = "counter" THEN "Counter" ELSE NoCtor]
    /\ liteElementsInstancesMap = [e \in Elements |-> NoId]
    /\ instances = [e \in Elements |-> <<>>]
    /\ controllers = [h \in Hosts |-> {}]
    /\ isConnected = [h \in Hosts |-> TRUE]
    /\ isUpdatePending = [h \in Hosts |-> TRUE]
    /\ hostOf \in Layouts
    /\ attr = [e \in Elements |-> NotInRoot]
    /\ content = [e \in Elements |-> Empty]
    /\ requested = [h \in Hosts |-> 0]
    /\ lastOp = Op("init", NoTarget, Undefined)
    /\ thrown = FALSE
    /\ failures = 0

\* the controllers' render() returns a template
Init == Loaded /\ renderFails = FALSE

\* how a step of lite() names the pair it registered
RegKey(name, ctor) ==
    <<IF name = "counter" THEN 1 ELSE 2, IF ctor = "Counter" THEN 1 ELSE 2>>

\* lite() that keeps the constructor a name is already registered to
Lite_KeepFirst(name, ctor) ==
    /\ SingleNode
    /\ liteElementsMap[name] # ctor
    /\ liteElementsMap' = IF liteElementsMap[name] = NoCtor
                          THEN [liteElementsMap EXCEPT ![name] = ctor]
                          ELSE liteElementsMap
    /\ Becomes(World)
    /\ lastOp' = Op("lite", RegKey(name, ctor), Undefined)
    /\ UNCHANGED <<isConnected, hostOf, attr, renderFails>>

\* lite(Base, [[name, ctor]])
Lite(name, ctor) ==
    /\ SingleNode
    /\ liteElementsMap[name] # ctor
    /\ liteElementsMap' = [liteElementsMap EXCEPT ![name] = ctor]
    /\ Becomes(World)
    /\ lastOp' = Op("lite", RegKey(name, ctor), Undefined)
    /\ UNCHANGED <<isConnected, hostOf, attr, renderFails>>

\* the host's connectedCallback
Connect(h) ==
    /\ ~isConnected[h]
    /\ isConnected' = [isConnected EXCEPT ![h] = TRUE]
    /\ Becomes(ConnectEachController(World, controllers[h]))
    /\ lastOp' = Op("connect", <<h, 0>>, Undefined)
    /\ UNCHANGED <<liteElementsMap, hostOf, attr, renderFails>>

\* the host's disconnectedCallback
Disconnect(h) ==
    /\ SingleNode
    /\ isConnected[h]
    /\ isConnected' = [isConnected EXCEPT ![h] = FALSE]
    /\ Becomes(World)
    /\ lastOp' = Op("env", NoTarget, Undefined)
    /\ UNCHANGED <<liteElementsMap, hostOf, attr, renderFails>>

\* what a performUpdate() of host h leaves in lastOp: two updates in a row
\* alternate the value, so that each is a step that changes lastOp
PerformedOp(h) ==
    Op("performUpdate", <<h, 0>>,
       IF lastOp = Op("performUpdate", <<h, 0>>, 0) THEN 1 ELSE 0)

\* the host's performUpdate(): hostUpdate() of every controller, the host's
\* own update, then updated()
PerformUpdate(h) ==
    /\ isUpdatePending[h]
    /\ LET w1 == ForEachController(World, controllers[h])
           w2 == [w1 EXCEPT !.pending[h] = FALSE]
           w3 == IF w1.thrown THEN w2 ELSE UpdateContent(w2, h)
       IN Bounded(w3) /\ Becomes(w3)
    /\ lastOp' = PerformedOp(h)
    /\ UNCHANGED <<liteElementsMap, isConnected, hostOf, attr, renderFails>>

\* a direct call of updateContent(); the step records whether the step before
\* it was a discovery pass of the same host
CallUpdateContent(h) ==
    /\ LET w1 == UpdateContent(World, h)
       IN Bounded(w1) /\ Becomes(w1)
    /\ lastOp' = Op("updateContent", <<h, 0>>,
                    IF lastOp.op \in Passes /\ lastOp.target = <<h, 0>> THEN 1 ELSE 0)
    /\ UNCHANGED <<liteElementsMap, isConnected, hostOf, attr, renderFails>>

\* the node enters the shadow root with lite="name", or its attribute changes
SetAttribute(e, name) ==
    /\ SmallPage \/ name = "counter"
    /\ hostOf[e] # 0
    /\ attr[e] # name
    /\ attr' = [attr EXCEPT ![e] = name]
    /\ Becomes(World)
    /\ lastOp' = Op("env", NoTarget, Undefined)
    /\ UNCHANGED <<liteElementsMap, isConnected, hostOf, renderFails>>

\* the node leaves the shadow root
RemoveElement(e) ==
    /\ SmallPage
    /\ attr[e] # NotInRoot
    /\ attr' = [attr EXCEPT ![e] = NotInRoot]
    /\ Becomes(World)
    /\ lastOp' = Op("env", NoTarget, Undefined)
    /\ UNCHANGED <<liteElementsMap, isConnected, hostOf, renderFails>>

\* a caller assigns instance.f = v
Write(i, f, v) ==
    /\ Becomes([PropSet(World, i, f, v) EXCEPT
                  !.instances[i[1]][i[2]].written[f] = [any |-> TRUE, value |-> v]])
    /\ lastOp' = Op("write", i, v)
    /\ UNCHANGED <<liteElementsMap, isConnected, hostOf, attr, renderFails>>

\* a caller reads instance.f
Read(i, f) ==
    /\ LET g == PropGet(World, i, f)
       IN /\ Becomes(g.w)
          /\ lastOp' = Op("read", i, g.val)
    /\ UNCHANGED <<liteElementsMap, isConnected, hostOf, attr, renderFails>>

\* the body of increment(), this.count = this.count + 1, run with this = i
IncrementBody(w, i) ==
    LET g == PropGet(w, i, "count")
    IN [PropSet(g.w, i, "count", g.val + 1) EXCEPT
          !.instances[i[1]][i[2]].written["count"] = [any |-> TRUE, value |-> g.val + 1]]

\* a method of the instance run with this = i
MethodCall(w, i, m) ==
    IF m = "increment" THEN IncrementBody(w, i) ELSE HostUpdate(w, i)

\* instance.increment()
Increment(i) ==
    /\ LET g == PropGet(World, i, "count")
       IN /\ g.val \in 0..(MaxValue - 1)
          /\ Becomes(IncrementBody(World, i))
          /\ lastOp' = Op("increment", i, g.val + 1)
    /\ UNCHANGED <<liteElementsMap, isConnected, hostOf, attr, renderFails>>

\* const f = instance.m; f(): the receiver is the instance if the property
\* read found an own bound function, and undefined if it found the method on
\* a prototype (the body then throws a TypeError at its first use of this)
CallBare(i, m) ==
    /\ SingleNode
    /\ m \in PrototypeMethods(The(i).ctor) \cup LiteElementMethods
    /\ LET g == PropGet(World, i, "count")
       IN IF m \in The(i).bound
          THEN /\ m = "increment" => g.val \in 0..(MaxValue - 1)
               /\ Becomes(MethodCall(World, i, m))
               /\ lastOp' = Op(BareOp(m), i, IF m = "increment" THEN g.val + 1 ELSE Undefined)
          ELSE /\ Becomes(World)
               /\ lastOp' = Op(BareOp(m), i, Undefined)
    /\ UNCHANGED <<liteElementsMap, isConnected, hostOf, attr, renderFails>>

\* direct calls of the public hooks
CallHostConnected(i) ==
    /\ SingleNode
    /\ Becomes(HostConnected(World, i))
    /\ lastOp' = Op("hostConnected", i, Undefined)
    /\ UNCHANGED <<liteElementsMap, isConnected, hostOf, attr, renderFails>>

CallHostUpdate(i) ==
    /\ SingleNode
    /\ Becomes(HostUpdate(World, i))
    /\ lastOp' = Op("hostUpdate", i, Undefined)
    /\ UNCHANGED <<liteElementsMap, isConnected, hostOf, attr, renderFails>>

CallInitReactiveProperties(i) ==
    /\ SingleNode
    /\ Becomes(InitReactiveProperties(World, i))
    /\ lastOp' = Op("initReactiveProperties", i, Undefined)
    /\ UNCHANGED <<liteElementsMap, isConnected, hostOf, attr, renderFails>>

Next ==
    \/ \E r \in Registrations : Lite(r[1], r[2])
    \/ \E h \in LiveHosts : Connect(h)
    \/ \E h \in LiveHosts : Disconnect(h)
    \/ \E h \in LiveHosts : PerformUpdate(h)
    \/ \E h \in LiveHosts : CallUpdateContent(h)
    \/ \E e \in Elements, n \in Names : SetAttribute(e, n)
    \/ \E e \in Elements : RemoveElement(e)
    \/ \E i \in Ids, f \in Fields, v \in Values : Write(i, f, v)
    \/ \E i \in Ids, f \in Fields : Read(i, f)
    \/ \E i \in Ids : Increment(i)
    \/ \E i \in Ids, m \in BareMethods : CallBare(i, m)
    \/ \E i \in Ids : CallHostConnected(i)
    \/ \E i \in Ids : CallHostUpdate(i)
    \/ \E i \in Ids : CallInitReactiveProperties(i)

Spec == Init /\ [][Next]_vars

\* lit performs a requested update in a microtask: a pending update of a host
\* is eventually performed.  Performed(h) holds of exactly the PerformUpdate(h)
\* steps of Spec, and it is enabled exactly when PerformUpdate(h) is.
Performed(h) ==
    /\ h \in LiveHosts
    /\ isUpdatePending[h]
    /\ lastOp' = PerformedOp(h)

FairSpec == Spec /\ \A h \in Hosts : WF_lastOp(Performed(h))

\* the program with controller classes whose render() throws
FailInit == Loaded /\ renderFails = TRUE

FailSpec == FailInit /\ [][Next]_vars

\* ----------------------------------------------------------------- claims
Registered(e) == attr[e] # NotInRoot /\ liteElementsMap[attr[e]] # NoCtor

C2_EveryWriteRequestsOnce ==
    (lastOp.op \in Writes /\ The(lastOp.target).reactivePropertiesInitialized)
    => requested = [h \in Hosts |-> IF h = The(lastOp.target).host THEN 1 ELSE 0]

\* C3: once the reactive fields are installed, a read returns the value of
\* the most recent write to the field.
C3_LastWriteWins ==
    (/\ lastOp.op = "read"
     /\ The(lastOp.target).reactivePropertiesInitialized
     /\ The(lastOp.target).written["count"].any)
    => lastOp.value = The(lastOp.target).written["count"].value

\* an installed field was written, a commit ran, and a read returned the value
C3_Witness ==
    /\ lastOp.op = "read"
    /\ The(lastOp.target).reactivePropertiesInitialized
    /\ The(lastOp.target).written["count"] = [any |-> TRUE, value |-> 1]
    /\ content[lastOp.target[1]] = [tpl |-> "count=", arg |-> 1]
    /\ lastOp.value = 1

\* C4: a read of a field that no caller has written returns the default the
\* controller class initialises the field with, whether the accessors were
\* installed inside the constructor or by a later hook.
C4_ReadBeforeWriteIsDefault ==
    (lastOp.op = "read" /\ ~The(lastOp.target).written["count"].any)
    => lastOp.value = DefaultOf(The(lastOp.target).ctor, "count")

\* such a read on a Counter whose accessors were installed inside the
\* constructor, before the class field assigned the default through them
C4_Witness ==
    /\ lastOp.op = "read"
    /\ ~The(lastOp.target).written["count"].any
    /\ The(lastOp.target).ctor = "Counter"
    /\ The(lastOp.target).prop["count"] = [kind |-> "accessor", value |-> Undefined]
    /\ The(lastOp.target).slot["count"] = [exists |-> TRUE, host |-> 1, value |-> 0]
    /\ lastOp.value = 0


\* what render() of the instance returns in the current state
RenderOut(i) == Render(World, i).out

\* C5: after a reactive field of a mounted controller (its reactive fields
\* installed) is written, the host eventually commits and the marker element
\* then shows render() of the updated state of the same instance; no step but
\* a caller's write changes what a field holds.  The formula asks only for
\* the outcome of the commit: the element eventually shows the updated state.
C5_WriteIsEventuallyDisplayed ==
    /\ \A e \in Elements :
          (/\ lastOp.op \in Writes
           /\ lastOp.target = <<e, 1>>
           /\ liteElementsInstancesMap[e] = <<e, 1>>
           /\ instances[e][1].reactivePropertiesInitialized)
          ~> (/\ liteElementsInstancesMap[e] = <<e, 1>>
              /\ content[e] = RenderOut(<<e, 1>>))
    /\ [][\A i \in Ids :
            lastOp'.op \notin Writes =>
                PropGet(World, i, "count").val = (PropGet(World, i, "count").val)']_vars

\* C6: when a write to a reactive field returns, the slot holds the new value
\* and an update of the host is pending, and no element's content has changed.
C6_WriteDoesNotRender ==
    [][LET t == lastOp'.target
       IN (lastOp'.op \in Writes /\ instances'[t[1]][t[2]].reactivePropertiesInitialized)
          => /\ instances'[t[1]][t[2]].slot["count"].exists
             /\ instances'[t[1]][t[2]].slot["count"].value = lastOp'.value
             /\ isUpdatePending'[instances'[t[1]][t[2]].host]
             /\ content' = content]_vars

\* the heap of the next state
WorldNext ==
    [instances |-> instances',
     instMap |-> liteElementsInstancesMap',
     controllers |-> controllers',
     content |-> content',
     pending |-> isUpdatePending',
     requested |-> requested',
     thrown |-> thrown',
     failures |-> failures']

\* C7: a discovery pass constructs no controller for a marker element whose
\* name has no registered constructor, records no association for it and
\* renders nothing into it, and it still mounts and renders every marker
\* element of the host whose name is registered.
C7_UnregisteredMarkerIsSkipped ==
    [][lastOp'.op = "updateContent" =>
        \A e \in Elements :
            (hostOf[e] = lastOp'.target[1] /\ attr[e] # NotInRoot) =>
                IF liteElementsMap[attr[e]] = NoCtor
                THEN /\ instances'[e] = instances[e]
                     /\ liteElementsInstancesMap'[e] = liteElementsInstancesMap[e]
                     /\ content'[e] = content[e]
                ELSE /\ liteElementsInstancesMap'[e] # NoId
                     /\ content'[e] =
                            Render(WorldNext, liteElementsInstancesMap'[e]).out]_vars

\* a pass ran over an unregistered marker that stayed empty, followed in
\* document order by a registered one that was mounted
C7_Witness ==
    /\ lastOp.op = "updateContent"
    /\ \E e, x \in Elements :
          /\ e < x
          /\ hostOf[e] = lastOp.target[1] /\ hostOf[x] = lastOp.target[1]
          /\ attr[e] # NotInRoot /\ liteElementsMap[attr[e]] = NoCtor
          /\ liteElementsInstancesMap[e] = NoId /\ content[e] = Empty
          /\ Registered(x)
          /\ liteElementsInstancesMap[x] = <<x, 1>>
          /\ content[x] = [tpl |-> "count=", arg |-> 0]

\* C8: a discovery pass that directly follows a discovery pass of the same
\* host constructs no controller and leaves the associations, every
\* controller's fields and every element's content as the first pass left them.
C8_SecondPassChangesNothing ==
    [][(lastOp'.op = "updateContent" /\ lastOp'.value = 1) =>
        /\ instances' = instances
        /\ liteElementsInstancesMap' = liteElementsInstancesMap
        /\ controllers' = controllers
        /\ content' = content]_vars

\* a second pass in a row over a mounted controller that holds a written value
C8_Witness ==
    /\ lastOp.op = "updateContent"
    /\ lastOp.value = 1
    /\ \E e \in Elements :
          /\ hostOf[e] = lastOp.target[1]
          /\ Registered(e)
          /\ liteElementsInstancesMap[e] = <<e, 1>>
          /\ instances[e][1].written["count"] = [any |-> TRUE, value |-> 1]
          /\ content[e] = [tpl |-> "count=", arg |-> 1]

\* the steps that call initReactiveProperties(), directly or through a hook
HookOps == {"initReactiveProperties", "hostConnected", "hostUpdate", "connect",
            "performUpdate"}

\* C9: the body of initReactiveProperties() runs at most once per instance,
\* and a call of initReactiveProperties(), hostConnected() or hostUpdate() on
\* an instance whose fields are installed leaves the accessors and an existing
\* slot as they are and does not change the value a read returns.
C9_InstallationIsIdempotent ==
    [][\A i \in Ids :
        /\ instances'[i[1]][i[2]].installs <= 1
        /\ lastOp'.op \in HookOps =>
              /\ \A f \in Fields :
                    PropGet(WorldNext, i, f).val = PropGet(World, i, f).val
              /\ The(i).reactivePropertiesInitialized =>
                    /\ instances'[i[1]][i[2]].installs = The(i).installs
                    /\ instances'[i[1]][i[2]].reactivePropertiesInitialized
                    /\ instances'[i[1]][i[2]].prop = The(i).prop
                    /\ \A f \in Fields :
                          The(i).slot[f].exists =>
                              instances'[i[1]][i[2]].slot[f] = The(i).slot[f]]_vars

\* initReactiveProperties() was called on an instance that was installed
\* before and holds a written value in its slot
C9_Witness ==
    /\ lastOp.op = "initReactiveProperties"
    /\ The(lastOp.target).installs = 1
    /\ The(lastOp.target).slot["count"] = [exists |-> TRUE, host |-> 1, value |-> 1]

\* C10: marker elements get distinct controllers, one per element, each
\* starting from the field defaults; a write to one controller changes no other
\* controller, and a pass renders into each element from its own controller.
C10_InstancesAreIndependent ==
    [][/\ \A e, x \in Elements :
            (e # x /\ liteElementsInstancesMap'[e] # NoId)
            => liteElementsInstancesMap'[e] # liteElementsInstancesMap'[x]
       /\ \A e \in Elements :
            Len(instances'[e]) > Len(instances[e]) =>
                /\ liteElementsInstancesMap'[e] = <<e, Len(instances'[e])>>
                /\ \A f \in Fields :
                      PropGet(WorldNext, <<e, Len(instances'[e])>>, f).val =
                          DefaultOf(instances'[e][Len(instances'[e])].ctor, f)
       /\ lastOp'.op \in Writes =>
            \A i \in Ids \ {lastOp'.target} : instances'[i[1]][i[2]] = The(i)
       /\ lastOp'.op \in Passes =>
            \A e \in Elements :
                (hostOf[e] = lastOp'.target[1] /\ Registered(e)) =>
                    content'[e] = Render(WorldNext, <<e, 1>>).out]_vars

\* two elements of one host carry the same registered name; one controller
\* was written to and a commit rendered each element from its own controller
C10_Witness ==
    /\ lastOp.op = "performUpdate"
    /\ \E e, x \in Elements :
          /\ e # x
          /\ hostOf[e] = hostOf[x]
          /\ attr[e] = attr[x] /\ Registered(e)
          /\ liteElementsInstancesMap[e] = <<e, 1>>
          /\ liteElementsInstancesMap[x] = <<x, 1>>
          /\ content[e] = [tpl |-> "count=", arg |-> 1]
          /\ content[x] = [tpl |-> "count=", arg |-> 0]

\* C11: a method of a controller that is taken off the instance and called
\* detached acts on the instance it was taken from: the call has the effect of
\* the same method called on that instance (its reads and writes of the
\* fields, its rendering and its update requests).
C11_BareCallActsOnItsInstance ==
    [][\A i \in Ids, m \in BareMethods :
        (lastOp'.op = BareOp(m) /\ lastOp'.target = i)
        => WorldNext = MethodCall(World, i, m)]_vars

\* C12: lite() on a name that is already registered replaces the mapping,
\* and a pass constructs the controller of an element that has none with the
\* constructor the name is mapped to by the latest registration.
C12_LastRegistrationWins ==
    [][/\ \A r \in Registrations :
            (lastOp'.op = "lite" /\ lastOp'.target = RegKey(r[1], r[2]))
            => liteElementsMap' = [liteElementsMap EXCEPT ![r[1]] = r[2]]
       /\ \A e \in Elements :
            Len(instances'[e]) > Len(instances[e])
            => instances'[e][Len(instances'[e])].ctor = liteElementsMap[attr[e]]]_vars

\* "counter" was registered to Counter and then to Label, and the pass after
\* that built a Label for an element that had no controller
C12_Witness ==
    /\ lastOp.op \in Passes
    /\ liteElementsMap["counter"] = "Label"
    /\ \E e \in Elements :
          /\ attr[e] = "counter"
          /\ liteElementsInstancesMap[e] = <<e, 1>>
          /\ instances[e][1].ctor = "Label"
          /\ content[e] = [tpl |-> "label", arg |-> Undefined]

\* the step that was taken calls render() of some controller
RendersInStep ==
    \/ lastOp'.op \in {"hostConnected", "hostUpdate"}
    \/ /\ lastOp'.op \in {"connect", "performUpdate"}
       /\ controllers[lastOp'.target[1]] # {}
    \/ /\ lastOp'.op \in Passes
       /\ \E e \in Elements : hostOf[e] = lastOp'.target[1] /\ Registered(e)

\* C13: when render() throws in a hook or in a pass, the exception leaves the
\* operation (nothing in the file catches it), render() is not called again in
\* that operation, and nothing is committed into any element.
C13_RenderFailurePropagates ==
    [][/\ failures' <= 1
       /\ thrown' <=> failures' = 1
       /\ renderFails =>
            /\ content' = content
            /\ RendersInStep => thrown']_vars

\* a pass reached the render of a controller it had mounted before and ended
\* with the exception; the element is still empty
C13_Witness ==
    /\ renderFails
    /\ lastOp.op = "updateContent"
    /\ thrown
    /\ failures = 1
    /\ \E e \in Elements :
          /\ hostOf[e] = lastOp.target[1]
          /\ Registered(e)
          /\ liteElementsInstancesMap[e] = <<e, 1>>
          /\ content[e] = Empty

\* C14: when a pass completes, every marker element of the host with a
\* registered name has a controller and shows render() of that controller;
\* when hostConnected() or hostUpdate() returns, every declared reactive field
\* of the controller is an accessor and the controller's element shows
\* render() of the controller.
C14_CommitPostcondition ==
    [][/\ lastOp'.op \in Passes =>
            \A e \in Elements :
                (hostOf[e] = lastOp'.target[1] /\ Registered(e)) =>
                    /\ liteElementsInstancesMap'[e] # NoId
                    /\ content'[e] = Render(WorldNext, liteElementsInstancesMap'[e]).out
       /\ lastOp'.op \in {"hostConnected", "hostUpdate"} =>
            LET t == lastOp'.target
            IN /\ instances'[t[1]][t[2]].reactivePropertiesInitialized
               /\ \A f \in Properties(instances'[t[1]][t[2]].ctor) :
                     instances'[t[1]][t[2]].prop[f].kind = "accessor"
               /\ content'[t[1]] = Render(WorldNext, t).out]_vars

\* the orders in which a query may return the elements of sq
Orders(sq) ==
    {[k \in 1..Len(sq) |-> sq[f[k]]] :
        f \in {g \in [1..Len(sq) -> 1..Len(sq)] :
                  \A a, b \in 1..Len(sq) : a # b => g[a] # g[b]}}

\* C15: in every state, a pass of a host leaves the same associations,
\* controllers, field values and contents for every order in which the query
\* may return the host's marker elements.
C15_PassIsOrderIndependent ==
    \A h \in LiveHosts :
        \A es \in Orders(QuerySelectorAll(h)) :
            ForEachElement(World, h, es) = UpdateContent(World, h)

\* a pass ran over two registered elements of one host whose controllers
\* hold different values, and taken in the reverse order it would construct a
\* controller or render as well
C15_Witness ==
    /\ lastOp.op = "updateContent"
    /\ Len(QuerySelectorAll(lastOp.target[1])) = 2
    /\ \A e \in Elements :
          /\ hostOf[e] = lastOp.target[1]
          /\ Registered(e)
          /\ liteElementsInstancesMap[e] = <<e, 1>>
    /\ content[1] = [tpl |-> "count=", arg |-> 0]
    /\ content[2] = [tpl |-> "count=", arg |-> 1]

\* the steps in which render() of a mounted controller may run
RenderOps == {"performUpdate", "updateContent", "connect", "hostConnected", "hostUpdate"}

\* the step that was taken reads or writes field f of instance i: a caller's
\* read or write, or render() of a Counter, which reads count
Accesses(i, f) ==
    \/ lastOp'.op \in Writes \cup {"read"} /\ lastOp'.target = i
    \/ lastOp'.op \in RenderOps /\ The(i).ctor = "Counter"

\* C16: a field's ReactiveProperty is made lazily and once: a step that does
\* not read or write the field makes none, a read or write of an installed
\* field leaves one in place, an existing one is never replaced, and a
\* construction makes one only for a field the constructor itself reads (in
\* render()) or writes (in a class field).
C16_SlotIsLazyAndUnique ==
    [][/\ \A i \in Ids, f \in Fields :
            LET o == The(i)
                n == instances'[i[1]][i[2]]
            IN /\ n.slotsMade[f] <= 1
               /\ n.slot[f].exists <=> n.slotsMade[f] = 1
               /\ o.slot[f].exists =>
                     /\ n.slot[f].exists
                     /\ n.slot[f].host = o.slot[f].host
                     /\ n.slotsMade[f] = o.slotsMade[f]
               /\ (~o.slot[f].exists /\ n.slot[f].exists) => Accesses(i, f)
               /\ (/\ o.prop[f].kind = "accessor"
                   /\ lastOp'.op \in Writes \cup {"read"}
                   /\ lastOp'.target = i) => n.slot[f].exists
       /\ \A e \in Elements, f \in Fields :
            Len(instances'[e]) > Len(instances[e]) =>
                LET n == instances'[e][Len(instances'[e])]
                IN /\ n.slotsMade[f] <= 1
                   /\ n.slot[f].exists <=> n.slotsMade[f] = 1
                   /\ n.slot[f].exists =>
                         (n.ctor = "Counter" \/ f \in InitializedFields(n.ctor))]_vars

\* a Label was mounted with its accessor installed and no slot, passes ran,
\* and the first read made the one slot, seeded with the original value
C16_Witness ==
    /\ lastOp.op = "read"
    /\ The(lastOp.target).ctor = "Label"
    /\ The(lastOp.target).prop["count"].kind = "accessor"
    /\ The(lastOp.target).slotsMade["count"] = 1
    /\ The(lastOp.target).slot["count"] = [exists |-> TRUE, host |-> 1, value |-> Undefined]
    /\ content[lastOp.target[1]] = [tpl |-> "label", arg |-> Undefined]

\* C17: a read of a field requests no update of any host, renders nothing,
\* and leaves the value that a read of any field of any controller returns
\* as it was; the read itself returned that value.
C17_ReadHasNoSideEffect ==
    [][lastOp'.op = "read" =>
        /\ requested' = [h \in Hosts |-> 0]
        /\ isUpdatePending' = isUpdatePending
        /\ content' = content
        /\ controllers' = controllers
        /\ liteElementsInstancesMap' = liteElementsInstancesMap
        /\ \A i \in Ids, f \in Fields :
              PropGet(WorldNext, i, f).val = PropGet(World, i, f).val
        /\ lastOp'.value = PropGet(World, lastOp'.target, "count").val]_vars

\* a read of a never-written field of a Label made the slot (nothing else
\* makes one for it) while no update of the host was pending
C17_Witness ==
    /\ lastOp.op = "read"
    /\ The(lastOp.target).ctor = "Label"
    /\ ~The(lastOp.target).written["count"].any
    /\ The(lastOp.target).slot["count"].exists
    /\ ~isUpdatePending[The(lastOp.target).host]
    /\ requested = [h \in Hosts |-> 0]

\* C18: at the end of a pass, the controller associated with a marker
\* element the pass processed is an instance of the constructor that the
\* registry maps the element's marker name to.
C18_ControllerMatchesRegistry ==
    [][lastOp'.op \in Passes =>
        \A e \in Elements :
            (hostOf[e] = lastOp'.target[1] /\ Registered(e)) =>
                LET i == liteElementsInstancesMap'[e]
                IN /\ i # NoId
                   /\ instances'[i[1]][i[2]].ctor = liteElementsMap[attr[e]]]_vars

\* C19: every constructed controller is in the controller set of its host
\* and no step takes one out; a performUpdate() of the host renders every
\* controller of the set into its element, whether or not the element is
\* still in the shadow root and its name still registered.
C19_ControllerStaysAttached ==
    [][/\ \A h \in Hosts : controllers[h] \subseteq controllers'[h]
       /\ \A e \in Elements : \A k \in 1..Len(instances'[e]) :
             <<e, k>> \in controllers'[instances'[e][k].host]
       /\ lastOp'.op = "performUpdate" =>
             \A i \in controllers[lastOp'.target[1]] :
                 content'[i[1]] = Render(WorldNext, i).out]_vars

\* the element left the shadow root, its controller was written to, and the
\* next performUpdate() of the host rendered the new value into the element
C19_Witness ==
    /\ lastOp.op = "performUpdate"
    /\ \E i \in controllers[lastOp.target[1]] :
          /\ attr[i[1]] = NotInRoot
          /\ The(i).ctor = "Counter"
          /\ The(i).written["count"] = [any |-> TRUE, value |-> 1]
          /\ content[i[1]] = [tpl |-> "count=", arg |-> 1]

\* once the callers stop writing, the hosts end with no update pending
Quiescence ==
    <>[](lastOp.op \notin Writes) => <>[](\A h \in LiveHosts : ~isUpdatePending[h])

\* C20: a performUpdate() of a host, in which no caller writes a field, calls
\* requestUpdate() on no host and leaves no update of the host pending; so
\* once the callers stop writing, the hosts end with no update pending.
C20_CommitSchedulesNoCommit ==
    /\ [][lastOp'.op = "performUpdate" =>
            /\ requested' = [h \in Hosts |-> 0]
            /\ ~isUpdatePending'[lastOp'.target[1]]]_vars
    /\ Quiescence

====
